---- MODULE Spec2Model ----
(***************************************************************************)
(* Model of manifest.py (segmenting, cue points, ad rotation, master       *)
(* playlist) and of overlay.py (ffmpeg filter graph construction).         *)
(* Durations are whole seconds.  Shows and ads are dicts carrying every    *)
(* key the code reads (id, name, file_path / filename, duration).          *)
(***************************************************************************)
EXTENDS Integers, Sequences, FiniteSets, TLC

VARIABLES
    \* ---- build_master_manifest (manifest.py) ----
    videos,            \* argument: list of shows
    ads,               \* argument: list of ads
    segment_length,    \* argument: nominal segment length
    pc,                \* position inside build_master_manifest
    err,               \* exception that ended the run, "none" otherwise
    ad_manifests,      \* local list built by the first loop
    show_idx,          \* number of shows whose iteration has started
    show_segments,     \* segments of the show being processed
    mid_ad_positions,  \* cue points of the show being processed
    seg_i,             \* loop index i of the inner loop
    ad_idx,            \* rotation counter
    master_segments,   \* the master timeline
    files,             \* manifests written so far, in order
    adLog,             \* names logged by "Inserting ad" / "Inserting final ad"
    \* ---- direct calls of segment_video / build_show_segments ----
    fnArgs,
    fnRet,
    \* ---- build_filter_and_inputs (overlay.py) ----
    video_conf,
    ov_i,
    input_cmds,
    filter_parts,
    overlay_idx,
    ovRet

manifestVars == <<videos, ads, segment_length, pc, err, ad_manifests, show_idx,
                  show_segments, mid_ad_positions, seg_i, ad_idx,
                  master_segments, files, adLog>>
fnVars == <<fnArgs, fnRet>>
overlayVars == <<video_conf, ov_i, input_cmds, filter_parts, overlay_idx, ovRet>>
vars == <<manifestVars, fnVars, overlayVars>>

\* ------------------------------------------------------------------------
\* Bounds of the model
\* ------------------------------------------------------------------------
MaxShows == 2
MaxAds == 2
MaxDur == 9
MaxLen == 4
MaxThr == 2
MaxOverlays == 3

\* ------------------------------------------------------------------------
\* Program constants
\* ------------------------------------------------------------------------
DefaultSegmentLength == 420
SkipAdIfLastLeq == 240
DefaultTargetDuration == 10

\* ------------------------------------------------------------------------
\* manifest.py: pure functions
\* ------------------------------------------------------------------------
Min(a, b) == IF a < b THEN a ELSE b

\* Plausible slip: the last chunk is not clamped to what remains.
SegDurUnclamped(segment_length_, remaining) == segment_length_

\* seg_dur = min(segment_length, remaining)
SegDur(segment_length_, remaining) == Min(segment_length_, remaining)

\* The while loop of segment_video.  An iteration with seg_dur <= 0 leaves
\* pos < duration true for ever (segment_length and duration never change),
\* so the loop does not terminate: hang = TRUE.
RECURSIVE SegmentLoop(_, _, _, _, _)
SegmentLoop(filename, duration, segment_length_, pos, segments) ==
    IF ~(pos < duration)
    THEN [hang |-> FALSE, segments |-> segments]
    ELSE LET seg_num == Len(segments) + 1
             remaining == duration - pos
             seg_dur == SegDur(segment_length_, remaining)
         IN IF seg_dur <= 0
            THEN [hang |-> TRUE, segments |-> <<>>]
            ELSE SegmentLoop(filename, duration, segment_length_, pos + seg_dur,
                     Append(segments, [filename |-> <<filename, seg_num>>,
                                       duration |-> seg_dur]))

segment_video(filename, duration, segment_length_) ==
    SegmentLoop(filename, duration, segment_length_, 0, <<>>)

\* Cue test of build_show_segments, for loop index i.
IsCue(i, segment_length_, duration, skip_ad_if_last_leq) ==
    (i + 1) * segment_length_ < duration - skip_ad_if_last_leq

\* build_show_segments.  The call segment_video(show['file_path'],
\* segment_length) binds segment_length to the parameter `duration` and
\* leaves the parameter `segment_length` at its default.  segments[-1] of an
\* empty list raises IndexError.
build_show_segments(show, segment_length_, skip_ad_if_last_leq) ==
    LET r == segment_video(show.file_path, segment_length_, DefaultSegmentLength)
        segments == r.segments
    IN IF r.hang
       THEN [raised |-> "hang", segments |-> <<>>, mid_ad_positions |-> {}]
       ELSE IF segments = <<>>
       THEN [raised |-> "IndexError", segments |-> <<>>, mid_ad_positions |-> {}]
       ELSE [raised |-> "none", segments |-> segments,
             mid_ad_positions |->
                 {i \in 0..(Len(segments) - 2) :
                     IsCue(i, segment_length_, show.duration, skip_ad_if_last_leq)}]

\* ------------------------------------------------------------------------
\* Idle values of the variable groups a specification does not use
\* ------------------------------------------------------------------------
ManifestIdle ==
    /\ videos = <<>> /\ ads = <<>> /\ segment_length = 0
    /\ pc = "idle" /\ err = "none" /\ ad_manifests = <<>> /\ show_idx = 0
    /\ show_segments = <<>> /\ mid_ad_positions = {} /\ seg_i = 0
    /\ ad_idx = 0 /\ master_segments = <<>> /\ files = <<>> /\ adLog = <<>>

NoRet == [fn |-> "none", raised |-> "none", hang |-> FALSE,
          segments |-> <<>>, mid_ad_positions |-> {}]

FnIdle ==
    /\ fnArgs = [duration |-> 0, segment_length |-> 0, skip |-> 0]
    /\ fnRet = NoRet

OverlayIdle ==
    /\ video_conf = [input |-> "none", overlays |-> <<>>]
    /\ ov_i = 0 /\ input_cmds = <<>> /\ filter_parts = <<>>
    /\ overlay_idx = 0
    /\ ovRet = [done |-> FALSE, inputs |-> <<>>, filter_complex |-> <<>>,
                last_output |-> 0]

\* ------------------------------------------------------------------------
\* Direct calls of the pure functions
\* ------------------------------------------------------------------------
Durations == (0..MaxDur) \cup {500, 1500, 3000}
Lengths == (-1..MaxLen) \cup {420, 840, 1260}
Thresholds == (0..MaxThr) \cup {240}

\* Every small input, and the long durations with lengths of at least the
\* default chunk length (a long duration cut into one-second chunks only
\* makes the lists long).
FnInputs ==
    {a \in [duration : Durations, segment_length : Lengths, skip : Thresholds] :
        \/ a.duration <= MaxDur
        \/ a.segment_length <= 0
        \/ a.segment_length >= DefaultSegmentLength}

InitFn ==
    /\ fnArgs \in FnInputs
    /\ fnRet = NoRet
    /\ ManifestIdle
    /\ OverlayIdle

CallSegmentVideo ==
    /\ fnRet.fn = "none"
    /\ LET r == segment_video("f", fnArgs.duration, fnArgs.segment_length)
       IN fnRet' = [fn |-> "segment_video", raised |-> "none", hang |-> r.hang,
                    segments |-> r.segments, mid_ad_positions |-> {}]
    /\ UNCHANGED <<fnArgs, manifestVars, overlayVars>>

CallBuildShowSegments ==
    /\ fnRet.fn = "none"
    /\ LET show == [id |-> "show1", name |-> "show1", file_path |-> "f",
                    duration |-> fnArgs.duration]
           r == build_show_segments(show, fnArgs.segment_length, fnArgs.skip)
       IN fnRet' = [fn |-> "build_show_segments", raised |-> r.raised,
                    hang |-> FALSE, segments |-> r.segments,
                    mid_ad_positions |-> r.mid_ad_positions]
    /\ UNCHANGED <<fnArgs, manifestVars, overlayVars>>

NextFn == CallSegmentVideo \/ CallBuildShowSegments

SpecFn == InitFn /\ [][NextFn]_vars

\* ------------------------------------------------------------------------
\* manifest.py: build_master_manifest
\* ------------------------------------------------------------------------
ShowIds == <<"show1", "show2", "show3", "show4">>
AdNames == <<"ad1", "ad2", "ad3", "ad4">>
ShowDurations == {500, 1600, 3000}
AdDurations == {0, 100, 1000}
SegmentLengths == {0, 420, 840, 1260}

\* f"{seg['duration']:.3f}" of a whole number of seconds: integer part and
\* three decimals.
Fmt3f(d) == <<d, 0>>

RECURSIVE SegmentLines(_)
SegmentLines(segments) ==
    IF segments = <<>> THEN <<>>
    ELSE <<[tag |-> "#EXTINF", val |-> Fmt3f(segments[1].duration)],
           [tag |-> "uri", val |-> segments[1].filename]>>
         \o SegmentLines(Tail(segments))

\* f.write(f"#EXT-X-TARGETDURATION:{target_duration}\n")
TargetLine(target_duration, segments) ==
    [tag |-> "#EXT-X-TARGETDURATION", val |-> <<target_duration>>]

\* write_manifest: the file it writes.
write_manifest(base_name, segments, target_duration) ==
    [name |-> base_name,
     lines |-> <<[tag |-> "#EXTM3U", val |-> <<>>],
                 [tag |-> "#EXT-X-VERSION", val |-> <<3>>],
                 TargetLine(target_duration, segments),
                 [tag |-> "#EXT-X-MEDIA-SEQUENCE", val |-> <<0>>]>>
               \o SegmentLines(segments)
               \o <<[tag |-> "#EXT-X-ENDLIST", val |-> <<>>]>>]

\* The master manifest written at the end of build_master_manifest.
MasterFile(segments, segment_length_) ==
    [name |-> "master_playlist",
     lines |-> <<[tag |-> "#EXTM3U", val |-> <<>>],
                 [tag |-> "#EXT-X-VERSION", val |-> <<3>>],
                 [tag |-> "#EXT-X-TARGETDURATION", val |-> <<segment_length_>>],
                 [tag |-> "#EXT-X-MEDIA-SEQUENCE", val |-> <<0>>]>>
               \o SegmentLines(segments)
               \o <<[tag |-> "#EXT-X-ENDLIST", val |-> <<>>]>>]

\* Plausible slip: the rotation is forgotten and the first ad always taken.
SelectAdFirst(ad_idx_, total_ads) == 0

\* ad_idx % total_ads (0-based index into ad_manifests)
SelectAd(ad_idx_, total_ads) == ad_idx_ % total_ads

ShowEntry(seg, show) ==
    [filename |-> seg.filename, duration |-> seg.duration,
     type |-> "show", show |-> show.id]

\* Plausible slip: the ad's segments are appended last-first.
AdEntriesReversed(ad_manifest) ==
    [k \in 1..Len(ad_manifest.segments) |->
        LET ad_seg == ad_manifest.segments[Len(ad_manifest.segments) + 1 - k]
        IN [filename |-> ad_seg.filename, duration |-> ad_seg.duration,
            type |-> "ad", show |-> ad_manifest.name]]

\* for ad_seg in current_ad['segments']: master_segments.append({...})
AdEntries(ad_manifest) ==
    [k \in 1..Len(ad_manifest.segments) |->
        LET ad_seg == ad_manifest.segments[k]
        IN [filename |-> ad_seg.filename, duration |-> ad_seg.duration,
            type |-> "ad", show |-> ad_manifest.name]]

SeqsUpTo(S, n) == UNION {[1..k -> S] : k \in 0..n}

Init ==
    /\ \E ds \in SeqsUpTo(ShowDurations, MaxShows) :
          videos = [j \in 1..Len(ds) |->
                       [id |-> ShowIds[j], name |-> ShowIds[j],
                        file_path |-> ShowIds[j], duration |-> ds[j]]]
    /\ \E ds \in SeqsUpTo(AdDurations, MaxAds) :
          ads = [k \in 1..Len(ds) |->
                    [name |-> AdNames[k], filename |-> AdNames[k],
                     duration |-> ds[k]]]
    /\ segment_length \in SegmentLengths
    /\ pc = "loops"
    /\ err = "none"
    /\ ad_manifests = <<>>
    /\ show_idx = 0
    /\ show_segments = <<>>
    /\ mid_ad_positions = {}
    /\ seg_i = 0
    /\ ad_idx = 0
    /\ master_segments = <<>>
    /\ files = <<>>
    /\ adLog = <<>>
    /\ FnIdle
    /\ OverlayIdle

Raise(e) ==
    /\ pc' = "error"
    /\ err' = e

AdLoopDone == Len(ad_manifests) = Len(ads)
InnerLoopDone == seg_i = Len(show_segments)

\* One iteration of `for ad in ads`.  ffmpeg_segment runs the external
\* transcoder with check=True: it returns or raises CalledProcessError.
ProcessAd ==
    /\ pc = "loops"
    /\ ~AdLoopDone
    /\ LET ad == ads[Len(ad_manifests) + 1]
           r == segment_video(ad.filename, ad.duration, segment_length)
       IN \E ffmpeg_ok \in BOOLEAN :
            IF ~ffmpeg_ok
            THEN /\ Raise("CalledProcessError")
                 /\ UNCHANGED <<ad_manifests, files>>
            ELSE IF r.hang
            THEN /\ pc' = "hang"
                 /\ UNCHANGED <<err, ad_manifests, files>>
            ELSE /\ files' = Append(files,
                        write_manifest(ad.name, r.segments, segment_length))
                 /\ ad_manifests' = Append(ad_manifests,
                        [name |-> ad.name, segments |-> r.segments])
                 /\ UNCHANGED <<pc, err>>
    /\ UNCHANGED <<videos, ads, segment_length, show_idx, show_segments,
                   mid_ad_positions, seg_i, ad_idx, master_segments, adLog,
                   fnVars, overlayVars>>

\* Head of one iteration of `for show in videos`: ffmpeg_segment,
\* build_show_segments (default skip_ad_if_last_leq) and write_manifest.
BeginShow ==
    /\ pc = "loops"
    /\ AdLoopDone
    /\ InnerLoopDone
    /\ show_idx < Len(videos)
    /\ LET show == videos[show_idx + 1]
           r == build_show_segments(show, segment_length, SkipAdIfLastLeq)
       IN \E ffmpeg_ok \in BOOLEAN :
            IF ~ffmpeg_ok
            THEN /\ Raise("CalledProcessError")
                 /\ UNCHANGED <<show_idx, show_segments, mid_ad_positions, seg_i, files>>
            ELSE IF r.raised # "none"
            THEN /\ Raise(r.raised)
                 /\ show_idx' = show_idx + 1
                 /\ UNCHANGED <<show_segments, mid_ad_positions, seg_i, files>>
            ELSE /\ show_idx' = show_idx + 1
                 /\ show_segments' = r.segments
                 /\ mid_ad_positions' = r.mid_ad_positions
                 /\ seg_i' = 0
                 /\ files' = Append(files,
                        write_manifest(show.id, r.segments, segment_length))
                 /\ UNCHANGED <<pc, err>>
    /\ UNCHANGED <<videos, ads, segment_length, ad_manifests, ad_idx,
                   master_segments, adLog, fnVars, overlayVars>>

\* One iteration of `for i in range(seg_count)`: the show's segment, then
\* the whole ad block when i is a cue point.  With an empty pool the index
\* expression ad_idx % total_ads raises ZeroDivisionError after the show's
\* segment has been appended.
AppendSegment ==
    /\ pc = "loops"
    /\ AdLoopDone
    /\ ~InnerLoopDone
    /\ LET show == videos[show_idx]
           seg == show_segments[seg_i + 1]
           total_ads == Len(ads)
           withSeg == Append(master_segments, ShowEntry(seg, show))
       IN IF seg_i \in mid_ad_positions
          THEN IF total_ads = 0
               THEN /\ Raise("ZeroDivisionError")
                    /\ master_segments' = withSeg
                    /\ UNCHANGED <<seg_i, ad_idx, adLog>>
               ELSE LET current_ad == ad_manifests[SelectAd(ad_idx, total_ads) + 1]
                    IN /\ adLog' = Append(adLog, current_ad.name)
                       /\ master_segments' = withSeg \o AdEntries(current_ad)
                       /\ ad_idx' = ad_idx + 1
                       /\ seg_i' = seg_i + 1
                       /\ UNCHANGED <<pc, err>>
          ELSE /\ master_segments' = withSeg
               /\ seg_i' = seg_i + 1
               /\ UNCHANGED <<pc, err, ad_idx, adLog>>
    /\ UNCHANGED <<videos, ads, segment_length, ad_manifests, show_idx,
                   show_segments, mid_ad_positions, files, fnVars, overlayVars>>

\* `if ads:` after the show loop: one last ad, ad_idx is not advanced.
FinalAd ==
    /\ pc = "loops"
    /\ AdLoopDone
    /\ InnerLoopDone
    /\ show_idx = Len(videos)
    /\ IF ads # <<>>
       THEN LET last_ad == ad_manifests[SelectAd(ad_idx, Len(ads)) + 1]
            IN /\ adLog' = Append(adLog, last_ad.name)
               /\ master_segments' = master_segments \o AdEntries(last_ad)
       ELSE UNCHANGED <<adLog, master_segments>>
    /\ pc' = "write"
    /\ UNCHANGED <<videos, ads, segment_length, err, ad_manifests, show_idx,
                   show_segments, mid_ad_positions, seg_i, ad_idx, files,
                   fnVars, overlayVars>>

\* Write master manifest and return.
WriteMaster ==
    /\ pc = "write"
    /\ files' = Append(files, MasterFile(master_segments, segment_length))
    /\ pc' = "done"
    /\ UNCHANGED <<videos, ads, segment_length, err, ad_manifests, show_idx,
                   show_segments, mid_ad_positions, seg_i, ad_idx,
                   master_segments, adLog, fnVars, overlayVars>>

Next == ProcessAd \/ BeginShow \/ AppendSegment \/ FinalAd \/ WriteMaster

Spec == Init /\ [][Next]_vars

\* ------------------------------------------------------------------------
\* Helpers for the properties
\* ------------------------------------------------------------------------
CeilDiv(a, b) == (a + b - 1) \div b

RECURSIVE SumDur(_)
SumDur(s) == IF s = <<>> THEN 0 ELSE s[1].duration + SumDur(Tail(s))

DurationsOf(s) == [k \in 1..Len(s) |-> s[k].duration]

\* C7: for D > 0 and L > 0, segment_video returns ceil(D/L) segments whose
\* durations sum to D; every segment but the last lasts L and the last lasts
\* D mod L, or L when D mod L = 0.
C7_SegmentVideoShape ==
    (fnRet.fn = "segment_video" /\ fnArgs.duration > 0 /\ fnArgs.segment_length > 0) =>
        LET D == fnArgs.duration
            L == fnArgs.segment_length
            s == fnRet.segments
        IN /\ ~fnRet.hang
           /\ Len(s) = CeilDiv(D, L)
           /\ SumDur(s) = D
           /\ \A k \in 1..(Len(s) - 1) : s[k].duration = L
           /\ s[Len(s)].duration = (IF D % L = 0 THEN L ELSE D % L)

C7_Witness ==
    /\ fnRet.fn = "segment_video"
    /\ fnArgs.duration = 1500 /\ fnArgs.segment_length = 420
    /\ DurationsOf(fnRet.segments) = <<420, 420, 420, 240>>

\* C1: build_show_segments returns N = ceil(D/L) segments and as cue points
\* exactly { i : 0 <= i <= N-2 and (i+1)*L < D - T }; D=1500, L=420, T=240
\* gives segments [420, 420, 420, 240] and cue points {0, 1}.
C1_CuePoints ==
    (fnRet.fn = "build_show_segments" /\ fnArgs.duration > 0 /\ fnArgs.segment_length > 0) =>
        LET D == fnArgs.duration
            L == fnArgs.segment_length
            T == fnArgs.skip
            N == CeilDiv(D, L)
        IN /\ fnRet.raised = "none"
           /\ Len(fnRet.segments) = N
           /\ fnRet.mid_ad_positions = {i \in 0..(N - 2) : (i + 1) * L < D - T}
           /\ (D = 1500 /\ L = 420 /\ T = 240) =>
                 /\ DurationsOf(fnRet.segments) = <<420, 420, 420, 240>>
                 /\ fnRet.mid_ad_positions = {0, 1}

\* ------------------------------------------------------------------------
\* Properties of build_master_manifest
\* ------------------------------------------------------------------------
Running == pc # "idle"

ShowIndexOf(id) == CHOOSE j \in 1..Len(videos) : videos[j].id = id
AdManifestOf(name) ==
    ad_manifests[CHOOSE k \in 1..Len(ad_manifests) : ad_manifests[k].name = name]
SeqNo(entry) == entry.filename[2]

\* The show loop stands between two shows (or after the last one).
BetweenShows ==
    /\ pc \in {"loops", "write", "done"}
    /\ AdLoopDone
    /\ InnerLoopDone

\* C2: with a non-empty pool exactly one ad is drawn for every show processed
\* (at its cue point or after its last segment), so once a show's entries are
\* complete the number of ads drawn equals the number of shows processed and
\* no show has had two insertions.
C2_OneAdPerShow ==
    (Running /\ ads # <<>> /\ BetweenShows) => ad_idx = show_idx

\* C3: with an empty pool (and a positive nominal length) the run never fails
\* inside the builder, the timeline holds no ad entry, and the finished
\* timeline is the concatenation of the shows' own segments.
C3_EmptyPoolCompletes ==
    (Running /\ ads = <<>> /\ segment_length > 0) =>
        /\ err \in {"none", "CalledProcessError"}
        /\ \A p \in 1..Len(master_segments) : master_segments[p].type = "show"
        /\ adLog = <<>>

\* Lines of the written master manifest.
MasterLines == files[Len(files)].lines
ExtinfLine(lines, k) ==
    CHOOSE p \in 1..Len(lines) :
        /\ lines[p].tag = "#EXTINF"
        /\ Cardinality({q \in 1..p : lines[q].tag = "#EXTINF"}) = k
MarkerBefore(lines, k) ==
    lines[ExtinfLine(lines, k) - 1].tag = "#EXT-X-DISCONTINUITY"

\* C4: in the written master manifest a discontinuity marker stands
\* immediately before entry i iff i is not the first entry and its origin
\* differs from the origin of entry i-1.
C4_DiscontinuityAtOriginChange ==
    pc = "done" =>
        \A k \in 1..Len(master_segments) :
            MarkerBefore(MasterLines, k) <=>
                (k >= 2 /\ master_segments[k].show # master_segments[k - 1].show)

Max(S) == CHOOSE x \in S : \A y \in S : y <= x
EntryDurations(lines) ==
    {lines[p].val[1] : p \in {q \in 1..Len(lines) : lines[q].tag = "#EXTINF"}}
DeclaredTarget(lines) ==
    lines[CHOOSE p \in 1..Len(lines) : lines[p].tag = "#EXT-X-TARGETDURATION"].val[1]

\* C5: every written manifest declares as target duration the ceiling of the
\* longest entry duration (whole seconds: the maximum itself), and the
\* default 10 when it has no entry.
C5_TargetDurationIsCeilMax ==
    \A f \in 1..Len(files) :
        DeclaredTarget(files[f].lines) =
            (IF EntryDurations(files[f].lines) = {}
             THEN DefaultTargetDuration
             ELSE Max(EntryDurations(files[f].lines)))

\* Names of the ads whose blocks start in the timeline, in timeline order.
RECURSIVE AdHeads(_)
AdHeads(entries) ==
    IF entries = <<>> THEN <<>>
    ELSE (IF entries[1].type = "ad" /\ SeqNo(entries[1]) = 1
          THEN <<entries[1].show>> ELSE <<>>) \o AdHeads(Tail(entries))

RECURSIVE NonEmptySelections(_)
NonEmptySelections(log) ==
    IF log = <<>> THEN <<>>
    ELSE (IF AdManifestOf(log[1]).segments # <<>> THEN <<log[1]>> ELSE <<>>)
         \o NonEmptySelections(Tail(log))

\* C6: with a pool of K >= 1 ads the i-th selection of the run (i = 0, 1, ...,
\* the trailing ad being the last) is pool[i mod K]; the selections appear in
\* the timeline in that order; the rotation index starts at 0 and counts the
\* selections made inside the show loop, never reset between shows.
C6_RoundRobin ==
    (Running /\ ads # <<>>) =>
        /\ \A i \in 1..Len(adLog) : adLog[i] = ads[((i - 1) % Len(ads)) + 1].name
        /\ AdHeads(master_segments) = NonEmptySelections(adLog)
        /\ Len(adLog) = ad_idx + (IF pc \in {"write", "done"} THEN 1 ELSE 0)

C6_Witness ==
    /\ pc = "done"
    /\ Len(ads) = 2
    /\ Len(videos) = 2
    /\ adLog = <<"ad1", "ad2", "ad1", "ad2">>
    /\ Len(AdHeads(master_segments)) = 4

\* C8: a run with a non-positive nominal length, or in which an asset
\* yielded zero segments, never hangs in segment_video, never writes a
\* manifest and never completes normally.
C8_SchedulingErrorAborts ==
    (Running /\ (segment_length <= 0
                 \/ \E k \in 1..Len(ad_manifests) : ad_manifests[k].segments = <<>>)) =>
        /\ pc \notin {"hang", "done"}
        /\ files = <<>>

\* Entries of show j in the timeline, as their segment numbers in order.
RECURSIVE ShowSeqNos(_, _)
ShowSeqNos(entries, id) ==
    IF entries = <<>> THEN <<>>
    ELSE (IF entries[1].type = "show" /\ entries[1].show = id
          THEN <<SeqNo(entries[1])>> ELSE <<>>) \o ShowSeqNos(Tail(entries), id)

ShowComplete(j) ==
    \/ j < show_idx
    \/ j = show_idx /\ InnerLoopDone /\ pc # "error"

\* C9: at every point of the run the timeline lists the shows in input
\* order, each show's segments in increasing number without gap or repeat
\* (all of them once the show is complete), and every ad's entries as one
\* contiguous block in the ad's own segment order.
C9_TimelineOrder ==
    Running =>
        LET m == master_segments
        IN /\ \A p, q \in 1..Len(m) :
                (p < q /\ m[p].type = "show" /\ m[q].type = "show") =>
                    ShowIndexOf(m[p].show) <= ShowIndexOf(m[q].show)
           /\ \A j \in 1..Len(videos) :
                LET nos == ShowSeqNos(m, videos[j].id)
                IN /\ nos = [k \in 1..Len(nos) |-> k]
                   /\ j > show_idx => nos = <<>>
                   /\ ShowComplete(j) =>
                        Len(nos) = Len(build_show_segments(videos[j], segment_length,
                                           SkipAdIfLastLeq).segments)
           /\ \A p \in 1..Len(m) :
                m[p].type = "ad" =>
                    LET n == SeqNo(m[p])
                        total == Len(AdManifestOf(m[p].show).segments)
                    IN /\ n > 1 => /\ p > 1
                                   /\ m[p - 1].type = "ad"
                                   /\ m[p - 1].show = m[p].show
                                   /\ SeqNo(m[p - 1]) = n - 1
                       /\ n = 1 => (p = 1 \/ m[p - 1].type = "show")
                       /\ n < total => /\ p < Len(m)
                                       /\ m[p + 1].type = "ad"
                                       /\ m[p + 1].show = m[p].show
                                       /\ SeqNo(m[p + 1]) = n + 1
                       /\ n = total => (p = Len(m) \/ m[p + 1].type = "show")

C9_Witness ==
    /\ pc = "done"
    /\ Len(videos) = 2
    /\ \E p \in 2..(Len(master_segments) - 2) :
          /\ master_segments[p - 1].type = "show"
          /\ master_segments[p].type = "ad"
          /\ master_segments[p + 1].type = "ad"
          /\ master_segments[p + 2].type = "show"
          /\ master_segments[p + 2].show = master_segments[p - 1].show

\* ------------------------------------------------------------------------
\* overlay.py: build_filter_and_inputs
\* ------------------------------------------------------------------------
Graphics == <<"g1.png", "g2.png", "g3.png", "g4.png", "g5.png">>
Modes == {"always", "periodic", "flash", "blink"}
KnownModes == {"always", "periodic", "flash"}

InitOverlay ==
    /\ \E ms \in SeqsUpTo(Modes, MaxOverlays) :
          video_conf = [input |-> "in.mp4",
                        overlays |-> [n \in 1..Len(ms) |->
                            [graphic |-> Graphics[n], mode |-> ms[n],
                             position |-> "10:10", interval |-> 10,
                             duration |-> 3, start |-> 5]]]
    /\ ov_i = 0
    /\ input_cmds = <<>>
    /\ filter_parts = <<>>
    /\ overlay_idx = 1
    /\ ovRet = [done |-> FALSE, inputs |-> <<>>, filter_complex |-> <<>>,
                last_output |-> 0]
    /\ ManifestIdle
    /\ FnIdle

\* The enable clause chosen by the if/elif chain; "skip" for the else branch.
Enable(overlay) ==
    IF overlay.mode = "always" THEN <<"">>
    ELSE IF overlay.mode = "periodic"
    THEN <<"lt(mod(t,interval),duration)", overlay.interval, overlay.duration>>
    ELSE IF overlay.mode = "flash"
    THEN <<"between(t,start,end)", overlay.start, overlay.start + overlay.duration>>
    ELSE <<"skip">>

\* "[{idx}:v]format=rgba[ol{idx}];[v{idx-1}][ol{idx}]overlay={position}{enable}[v{idx}]"
FilterPart(overlay_idx_, overlay) ==
    [stream |-> overlay_idx_, ol |-> overlay_idx_, base |-> overlay_idx_ - 1,
     position |-> overlay.position, enable |-> Enable(overlay),
     out |-> overlay_idx_]

\* One iteration of `for overlay in video_conf["overlays"]`: the input is
\* added before the mode is looked at; `continue` skips only the filter part.
OverlayStep ==
    /\ ~ovRet.done
    /\ ov_i < Len(video_conf.overlays)
    /\ LET overlay == video_conf.overlays[ov_i + 1]
       IN /\ input_cmds' = input_cmds \o <<"-stream_loop", "-1", "-i", overlay.graphic>>
          /\ IF Enable(overlay) = <<"skip">>
             THEN UNCHANGED <<filter_parts, overlay_idx>>
             ELSE /\ filter_parts' = Append(filter_parts, FilterPart(overlay_idx, overlay))
                  /\ overlay_idx' = overlay_idx + 1
    /\ ov_i' = ov_i + 1
    /\ UNCHANGED <<video_conf, ovRet, manifestVars, fnVars>>

\* return base_input + input_cmds, filter_complex, f"[v{overlay_idx - 1}]"
OverlayReturn ==
    /\ ~ovRet.done
    /\ ov_i = Len(video_conf.overlays)
    /\ ovRet' = [done |-> TRUE,
                 inputs |-> <<"-i", video_conf.input>> \o input_cmds,
                 filter_complex |-> filter_parts,
                 last_output |-> overlay_idx - 1]
    /\ UNCHANGED <<video_conf, ov_i, input_cmds, filter_parts, overlay_idx,
                   manifestVars, fnVars>>

NextOverlay == OverlayStep \/ OverlayReturn

SpecOverlay == InitOverlay /\ [][NextOverlay]_vars

\* ffmpeg numbers its inputs by the order of the -i options, from 0.
RECURSIVE InputFiles(_)
InputFiles(args) ==
    IF Len(args) < 2 THEN <<>>
    ELSE IF args[1] = "-i" THEN <<args[2]>> \o InputFiles(SubSeq(args, 3, Len(args)))
    ELSE InputFiles(Tail(args))

\* Overlays of the configuration that produce a filter part, in order.
RECURSIVE Producers(_)
Producers(overlays) ==
    IF overlays = <<>> THEN <<>>
    ELSE (IF overlays[1].mode \in KnownModes THEN <<overlays[1]>> ELSE <<>>)
         \o Producers(Tail(overlays))

\* C10: on return the number of overlay inputs equals the number of filter
\* parts, and filter part k reads input stream k, which is the graphic of
\* the overlay that produced that part.
C10_InputsMatchFilterParts ==
    ovRet.done =>
        LET inputFiles == InputFiles(ovRet.inputs)
            parts == ovRet.filter_complex
            producers == Producers(video_conf.overlays)
        IN /\ Len(inputFiles) - 1 = Len(parts)
           /\ Len(parts) = Len(producers)
           /\ \A k \in 1..Len(parts) :
                /\ parts[k].stream = k
                /\ parts[k].stream + 1 <= Len(inputFiles)
                /\ inputFiles[parts[k].stream + 1] = producers[k].graphic

====
